---------------------------- MODULE Spec2Model ----------------------------
(***************************************************************************)
(* Model of the sales service: the create-sale write path (pos_router.py), *)
(* the online-order write path, the status update and the two order        *)
(* listings (purchase_order.py), over a relational store reached through   *)
(* connections opened by get_db_connection (database.py).                  *)
(*                                                                         *)
(* Money is counted in centavos (1/100 of a currency unit), as integers:   *)
(* every price of the model is a whole number of currency units, so the    *)
(* Decimal arithmetic of the code (sums, products, x * value / 100) is     *)
(* exact on the model's values.                                            *)
(*                                                                         *)
(* A nullable column or optional value is a sequence: <<>> is NULL / None, *)
(* <<v>> is the value v.                                                   *)
(***************************************************************************)
EXTENDS Integers, Sequences, FiniteSets, TLC

VARIABLES
    Sales,          \* table Sales: the set of committed rows
    SaleItem,       \* table SaleItem (singular): written by create_sale
    SaleItems,      \* table SaleItems (plural): written by save_online_order, read by the listings
    SaleDiscounts,  \* table SaleDiscounts
    nextSaleID,     \* the IDENTITY counter of Sales.SaleID
    task,           \* the request each task is handling, with its position and locals
    started         \* number of requests started so far

vars == <<Sales, SaleItem, SaleItems, SaleDiscounts, nextSaleID, task, started>>

----------------------------------------------------------------------------
(* Bounds *)

\* Total number of requests the two tasks start in one behaviour.
MaxRequests == 2

\* Longest cart of the pricing specification.
MaxCartLen == 2

\* Requests are handled on independent tasks; two run concurrently.
Tasks == {1, 2}

----------------------------------------------------------------------------
(* Small helpers *)

NULL == <<>>

Min(a, b) == IF a <= b THEN a ELSE b

Last(s) == s[Len(s)]

----------------------------------------------------------------------------
(* Principals returned by the identity service (get_current_active_user).  *)

Users ==
    { [username |-> "ana",  userRole |-> "cashier"],
      [username |-> "ben",  userRole |-> "staff"],
      [username |-> "mia",  userRole |-> "manager"],
      [username |-> "root", userRole |-> "admin"],
      [username |-> "gus",  userRole |-> "guest"] }

Operations ==
    {"create_sale", "get_processing_orders", "save_online_order",
     "update_order_status", "get_all_orders"}

\* allowed_roles with staff and cashier let into get_all_orders.
allowed_roles_all_orders_open(operation) ==
    IF operation = "save_online_order" THEN {"admin", "staff", "cashier"}
    ELSE {"admin", "manager", "staff", "cashier"}

\* The allowed_roles list each handler checks first.
allowed_roles(operation) ==
    CASE operation = "create_sale"           -> {"admin", "manager", "staff", "cashier"}
      [] operation = "get_processing_orders" -> {"admin", "manager", "staff", "cashier"}
      [] operation = "save_online_order"     -> {"admin", "staff", "cashier"}
      [] operation = "update_order_status"   -> {"admin", "manager", "staff", "cashier"}
      [] operation = "get_all_orders"        -> {"admin", "manager"}

----------------------------------------------------------------------------
(* Pricing and discounts: calculate_totals_and_discounts                   *)

espressoShots == 2500
seaSaltCream == 3000
syrupSauces == 2000

\* ADDON_PRICES.get(addon_name, Decimal('0.0'))
ADDON_PRICES(addon_name) ==
    CASE addon_name = "espressoShots" -> espressoShots
      [] addon_name = "seaSaltCream"  -> seaSaltCream
      [] addon_name = "syrupSauces"   -> syrupSauces
      [] OTHER                        -> 0

\* addons is the dict of a cart item, as a sequence of <<addon_name, quantity>>.
RECURSIVE addons_price(_)
addons_price(addons) ==
    IF addons = <<>> THEN 0
    ELSE ADDON_PRICES(Head(addons)[1]) * Head(addons)[2] + addons_price(Tail(addons))

item_total(item) == (item.price + addons_price(item.addons)) * item.quantity

RECURSIVE cart_subtotal(_)
cart_subtotal(cartItems) ==
    IF cartItems = <<>> THEN 0
    ELSE item_total(Head(cartItems)) + cart_subtotal(Tail(cartItems))

\* Table discounts (read only here).
discounts ==
    << [id |-> 1, name |-> "HappyHour", discount_type |-> "fixed_amount",
        discount_value |-> <<1000>>, minimum_spend |-> <<5000>>, status |-> "active"],
       [id |-> 2, name |-> "Half", discount_type |-> "percentage",
        discount_value |-> <<50>>, minimum_spend |-> NULL, status |-> "active"],
       [id |-> 3, name |-> "Big", discount_type |-> "fixed_amount",
        discount_value |-> <<30000>>, minimum_spend |-> <<0>>, status |-> "active"],
       [id |-> 4, name |-> "Old", discount_type |-> "fixed_amount",
        discount_value |-> <<1000>>, minimum_spend |-> <<0>>, status |-> "inactive"],
       [id |-> 5, name |-> "Vip", discount_type |-> "fixed_amount",
        discount_value |-> <<1000>>, minimum_spend |-> <<50000>>, status |-> "active"],
       [id |-> 6, name |-> "Blank", discount_type |-> "percentage",
        discount_value |-> NULL, minimum_spend |-> <<0>>, status |-> "active"] >>

InList(x, s) == \E k \in 1..Len(s) : s[k] = x

\* SELECT ... FROM discounts WHERE name IN (...) AND status = 'active'
valid_discounts(appliedDiscounts) ==
    LET Wanted(d) == InList(d.name, appliedDiscounts) /\ d.status = "active"
    IN  SelectSeq(discounts, Wanted)

\* discount.minimum_spend or Decimal('0.0')
min_spend(discount) ==
    IF discount.minimum_spend = NULL THEN 0 ELSE discount.minimum_spend[1]

discount_value(discount, subtotal) ==
    IF discount.discount_value = NULL THEN 0
    ELSE IF discount.discount_type = "percentage"
         THEN (subtotal * discount.discount_value[1]) \div 100
    ELSE IF discount.discount_type = "fixed_amount"
         THEN discount.discount_value[1]
    ELSE 0

\* The loop over valid_discounts: the attribution list, one entry per
\* discount whose minimum spend the subtotal reaches.
RECURSIVE applied_discounts_details(_, _)
applied_discounts_details(rows, subtotal) ==
    IF rows = <<>> THEN <<>>
    ELSE IF subtotal >= min_spend(Head(rows))
         THEN <<[id |-> Head(rows).id, amount |-> discount_value(Head(rows), subtotal)]>>
              \o applied_discounts_details(Tail(rows), subtotal)
         ELSE applied_discounts_details(Tail(rows), subtotal)

RECURSIVE total_amount_of(_)
total_amount_of(details) ==
    IF details = <<>> THEN 0
    ELSE Head(details).amount + total_amount_of(Tail(details))

\* final_discount without the clamp.
final_discount_unclamped(total_discount_amount, subtotal) == total_discount_amount

\* final_discount = min(total_discount_amount, subtotal)
final_discount(total_discount_amount, subtotal) ==
    Min(total_discount_amount, subtotal)

calculate_totals_and_discounts(cartItems, appliedDiscounts) ==
    LET subtotal == cart_subtotal(cartItems)
        details  == applied_discounts_details(valid_discounts(appliedDiscounts), subtotal)
    IN  IF appliedDiscounts = <<>>
        THEN [subtotal |-> subtotal, discount |-> 0, details |-> <<>>]
        ELSE [subtotal |-> subtotal,
              discount |-> final_discount(total_amount_of(details), subtotal),
              details  |-> details]


----------------------------------------------------------------------------
(* Tasks                                                                   *)

NoResponse == [code |-> 0, body |-> <<>>]

IdleTask ==
    [op |-> "idle", pc |-> "idle", user |-> <<>>, req |-> <<>>, loc |-> <<>>,
     conn |-> "none", resp |-> NoResponse]

\* HTTPException(status_code = code): the response of a request that raised.
HTTPException(code) == [code |-> code, body |-> <<>>]

Set(t, r) == task' = [task EXCEPT ![t] = r]

At(t, operation, pc) == task[t].op = operation /\ task[t].pc = pc

Busy(t) == task[t].pc \notin {"idle", "done"}

\* A task that holds no request in flight takes the next one. Tasks are
\* interchangeable: a request goes to the lowest free task.
Free(t) == ~Busy(t) /\ \A u \in Tasks : u < t => Busy(u)

\* The role check at the top of every handler: a caller outside
\* allowed_roles gets 403 before the handler touches the database.
Enter(t, operation, user, req, loc, first) ==
    /\ Free(t)
    /\ started < MaxRequests
    /\ started' = started + 1
    /\ IF user.userRole \notin allowed_roles(operation)
       THEN Set(t, [IdleTask EXCEPT !.op = operation, !.pc = "done", !.user = user,
                                    !.req = req, !.loc = loc,
                                    !.resp = HTTPException(403)])
       ELSE Set(t, [IdleTask EXCEPT !.op = operation, !.pc = first, !.user = user,
                                    !.req = req, !.loc = loc])

\* conn = await get_db_connection(): aioodbc.connect(dsn, autocommit=True)
\* returns an open connection in autocommit mode, or raises.
get_db_connection(t, raises, next) ==
    IF raises THEN Set(t, [task[t] EXCEPT !.pc = "except"])
    ELSE Set(t, [task[t] EXCEPT !.conn = "open", !.pc = next])

\* finally_close with the close left out.
finally_close_skipped(conn) == conn

\* finally: if conn: await conn.close(). conn is "none" while the handler's
\* variable is None, "open" once get_db_connection has returned.
finally_close(conn) == IF conn = "open" THEN "closed" ELSE conn

\* Rows another connection has inserted in a transaction it has not ended:
\* no statement of this connection reads or updates them.
Pending(t) ==
    IF task[t].op = "save_online_order" /\ Busy(t) THEN task[t].loc.pending_sale ELSE {}

----------------------------------------------------------------------------
(* create_sale: POST /auth/sales/                                          *)

CreateSaleLocals ==
    [subtotal |-> 0, total_discount |-> 0, discount_details |-> <<>>, sale_id |-> 0,
     i |-> 1, j |-> 1, committed |-> FALSE,
     ingredients |-> "none", materials |-> "none"]

\* create_sale_on_error with the error of commit swallowed.
create_sale_on_error_commit_swallowed(pc) ==
    IF pc = "commit" THEN "trigger_ingredients" ELSE "except"

\* Where control goes when the statement at pc raises: the except block.
create_sale_on_error(pc) == "except"

\* create_sale_after_trigger with a failed deduction raised to the handler.
create_sale_after_trigger_raising(pc, ok) ==
    IF ~ok THEN "except"
    ELSE IF pc = "trigger_ingredients" THEN "trigger_materials" ELSE "return"

\* Where control goes after a deduction helper returns: the helpers catch
\* every exception, so the outcome (ok) does not matter.
create_sale_after_trigger(pc, ok) ==
    IF pc = "trigger_ingredients" THEN "trigger_materials" ELSE "return"

create_sale_enter(t, user, sale) ==
    /\ Enter(t, "create_sale", user, sale, CreateSaleLocals, "connect")
    /\ UNCHANGED <<Sales, SaleItem, SaleItems, SaleDiscounts, nextSaleID>>

create_sale_connect(t, raises) ==
    /\ At(t, "create_sale", "connect")
    /\ get_db_connection(t, raises, "calculate")
    /\ UNCHANGED <<Sales, SaleItem, SaleItems, SaleDiscounts, nextSaleID, started>>

\* subtotal, total_discount, discount_details = await calculate_totals_and_discounts(sale, cursor)
\* The SELECT on discounts is issued only for a non-empty appliedDiscounts, and may raise.
create_sale_calculate(t, raises) ==
    /\ At(t, "create_sale", "calculate")
    /\ LET r == calculate_totals_and_discounts(task[t].req.cartItems,
                                               task[t].req.appliedDiscounts)
       IN  IF raises /\ task[t].req.appliedDiscounts # <<>>
           THEN Set(t, [task[t] EXCEPT !.pc = create_sale_on_error("calculate")])
           ELSE Set(t, [task[t] EXCEPT !.pc = "insert_sale",
                                       !.loc.subtotal = r.subtotal,
                                       !.loc.total_discount = r.discount,
                                       !.loc.discount_details = r.details])
    /\ UNCHANGED <<Sales, SaleItem, SaleItems, SaleDiscounts, nextSaleID, started>>

\* Status is not in the INSERT of create_sale: the column default applies.
DefaultStatus == "processing"

\* INSERT INTO Sales (...) OUTPUT INSERTED.SaleID. The connection is in
\* autocommit mode: the row is in the table when the statement returns.
create_sale_insert_sale(t, raises) ==
    /\ At(t, "create_sale", "insert_sale")
    /\ IF raises
       THEN /\ Set(t, [task[t] EXCEPT !.pc = create_sale_on_error("insert_sale")])
            /\ UNCHANGED <<Sales, nextSaleID>>
       ELSE /\ Sales' = Sales \cup
                  {[SaleID |-> nextSaleID,
                    CashierName |-> task[t].user.username,
                    TotalDiscountAmount |-> task[t].loc.total_discount,
                    Status |-> DefaultStatus,
                    GCashReferenceNumber |-> task[t].req.gcashReference]}
            /\ nextSaleID' = nextSaleID + 1
            /\ Set(t, [task[t] EXCEPT !.loc.sale_id = nextSaleID,
                                      !.pc = IF task[t].req.cartItems # <<>> THEN "insert_item"
                                             ELSE IF task[t].loc.discount_details # <<>>
                                                  THEN "insert_discount" ELSE "commit"])
    /\ UNCHANGED <<SaleItem, SaleItems, SaleDiscounts, started>>

\* An item row. Line stands for the identity column SaleItemID: the rows of
\* one sale are numbered in the order they are inserted.
ItemRow(sale_id, line, item) ==
    [SaleID |-> sale_id, Line |-> line, ItemName |-> item.name,
     Quantity |-> item.quantity, UnitPrice |-> item.price, Addons |-> item.addons]

\* One pass of: for item in sale.cartItems: INSERT INTO SaleItem (...)
create_sale_insert_item(t, raises) ==
    /\ At(t, "create_sale", "insert_item")
    /\ LET item == task[t].req.cartItems[task[t].loc.i]
           more == task[t].loc.i < Len(task[t].req.cartItems)
       IN  IF raises
           THEN /\ Set(t, [task[t] EXCEPT !.pc = create_sale_on_error("insert_item")])
                /\ UNCHANGED SaleItem
           ELSE /\ SaleItem' = SaleItem \cup
                        {ItemRow(task[t].loc.sale_id, task[t].loc.i, item)}
                /\ Set(t, [task[t] EXCEPT !.loc.i = @ + 1,
                                          !.pc = IF more THEN "insert_item"
                                                 ELSE IF task[t].loc.discount_details # <<>>
                                                      THEN "insert_discount" ELSE "commit"])
    /\ UNCHANGED <<Sales, SaleItems, SaleDiscounts, nextSaleID, started>>

\* One pass of: for discount in discount_details: INSERT INTO SaleDiscounts (...)
create_sale_insert_discount(t, raises) ==
    /\ At(t, "create_sale", "insert_discount")
    /\ LET discount == task[t].loc.discount_details[task[t].loc.j]
           more == task[t].loc.j < Len(task[t].loc.discount_details)
       IN  IF raises
           THEN /\ Set(t, [task[t] EXCEPT !.pc = create_sale_on_error("insert_discount")])
                /\ UNCHANGED SaleDiscounts
           ELSE /\ SaleDiscounts' = SaleDiscounts \cup
                        {[SaleID |-> task[t].loc.sale_id, DiscountID |-> discount.id,
                          DiscountAppliedAmount |-> discount.amount]}
                /\ Set(t, [task[t] EXCEPT !.loc.j = @ + 1,
                                          !.pc = IF more THEN "insert_discount" ELSE "commit"])
    /\ UNCHANGED <<Sales, SaleItem, SaleItems, nextSaleID, started>>

\* await conn.commit(): nothing is pending on an autocommit connection;
\* the call returns or raises.
create_sale_commit(t, raises) ==
    /\ At(t, "create_sale", "commit")
    /\ IF raises
       THEN Set(t, [task[t] EXCEPT !.pc = create_sale_on_error("commit")])
       ELSE Set(t, [task[t] EXCEPT !.loc.committed = TRUE, !.pc = "trigger_ingredients"])
    /\ UNCHANGED <<Sales, SaleItem, SaleItems, SaleDiscounts, nextSaleID, started>>

\* await trigger_ingredients_deduction(...): the POST succeeds (ok) or
\* fails; a failure is logged inside the helper.
trigger_ingredients_deduction(t, ok) ==
    /\ At(t, "create_sale", "trigger_ingredients")
    /\ Set(t, [task[t] EXCEPT !.loc.ingredients = IF ok THEN "ok" ELSE "failed",
                              !.pc = create_sale_after_trigger("trigger_ingredients", ok)])
    /\ UNCHANGED <<Sales, SaleItem, SaleItems, SaleDiscounts, nextSaleID, started>>

trigger_materials_deduction(t, ok) ==
    /\ At(t, "create_sale", "trigger_materials")
    /\ Set(t, [task[t] EXCEPT !.loc.materials = IF ok THEN "ok" ELSE "failed",
                              !.pc = create_sale_after_trigger("trigger_materials", ok)])
    /\ UNCHANGED <<Sales, SaleItem, SaleItems, SaleDiscounts, nextSaleID, started>>

\* return {...}; then finally: conn.close()
create_sale_return(t) ==
    /\ At(t, "create_sale", "return")
    /\ Set(t, [task[t] EXCEPT
            !.pc = "done", !.conn = finally_close(@),
            !.resp = [code |-> 201,
                      body |-> [saleId |-> task[t].loc.sale_id,
                                subtotal |-> task[t].loc.subtotal,
                                discountAmount |-> task[t].loc.total_discount,
                                finalTotal |-> task[t].loc.subtotal
                                               - task[t].loc.total_discount]]])
    /\ UNCHANGED <<Sales, SaleItem, SaleItems, SaleDiscounts, nextSaleID, started>>

\* except Exception: if conn: await conn.rollback(); raise HTTPException(500);
\* finally: if conn: await conn.close(). On an autocommit connection no
\* transaction is open, and rollback undoes nothing.
create_sale_except(t) ==
    /\ At(t, "create_sale", "except")
    /\ Set(t, [task[t] EXCEPT !.pc = "done",
                              !.conn = finally_close(@),
                              !.resp = HTTPException(500)])
    /\ UNCHANGED <<Sales, SaleItem, SaleItems, SaleDiscounts, nextSaleID, started>>

----------------------------------------------------------------------------
(* save_online_order: POST /auth/purchase_orders/online-order              *)

\* raised_at is the statement the exception handled by the except block
\* came from ("none" while there is none, "connect" for get_db_connection).
OnlineOrderLocals ==
    [sale_id |-> 0, i |-> 1, in_transaction |-> FALSE,
     pending_sale |-> {}, pending_items |-> {}, committed |-> FALSE,
     raised_at |-> "none"]

save_online_order_enter(t, user, order_data) ==
    /\ Enter(t, "save_online_order", user, order_data, OnlineOrderLocals, "connect")
    /\ UNCHANGED <<Sales, SaleItem, SaleItems, SaleDiscounts, nextSaleID>>

save_online_order_connect(t, raises) ==
    /\ At(t, "save_online_order", "connect")
    /\ get_db_connection(t, raises, "begin")
    /\ UNCHANGED <<Sales, SaleItem, SaleItems, SaleDiscounts, nextSaleID, started>>

\* await conn.begin()  ("Start a transaction"). The call raises (the
\* connection class of the installed driver may have no such method), or
\* it opens a transaction: the statements that follow are pending until
\* commit, and rollback discards them.
save_online_order_begin(t, raises) ==
    /\ At(t, "save_online_order", "begin")
    /\ IF raises
       THEN Set(t, [task[t] EXCEPT !.pc = "except", !.loc.raised_at = "begin"])
       ELSE Set(t, [task[t] EXCEPT !.loc.in_transaction = TRUE, !.pc = "insert_sale"])
    /\ UNCHANGED <<Sales, SaleItem, SaleItems, SaleDiscounts, nextSaleID, started>>

\* discount_amount = Decimal(order_data.subtotal) - Decimal(order_data.total_amount)
online_discount_amount(order_data) == order_data.subtotal - order_data.total_amount

\* f"ONLINE-{order_data.online_order_id}"
online_reference(online_order_id) == <<"ONLINE-", online_order_id>>

\* INSERT INTO Sales (..., Status, GCashReferenceNumber, CreatedAt) OUTPUT INSERTED.SaleID
\* The identity value is taken when the statement runs, whatever becomes of
\* the transaction.
save_online_order_insert_sale(t, raises) ==
    /\ At(t, "save_online_order", "insert_sale")
    /\ IF raises
       THEN /\ Set(t, [task[t] EXCEPT !.pc = "except", !.loc.raised_at = "insert_sale"])
            /\ UNCHANGED nextSaleID
       ELSE /\ nextSaleID' = nextSaleID + 1
            /\ Set(t, [task[t] EXCEPT
                    !.loc.sale_id = nextSaleID,
                    !.loc.pending_sale =
                        {[SaleID |-> nextSaleID,
                          CashierName |-> task[t].req.customer_name,
                          TotalDiscountAmount |-> online_discount_amount(task[t].req),
                          Status |-> task[t].req.status,
                          GCashReferenceNumber |->
                              online_reference(task[t].req.online_order_id)]},
                    !.pc = IF task[t].req.items # <<>> THEN "insert_item" ELSE "commit"])
    /\ UNCHANGED <<Sales, SaleItem, SaleItems, SaleDiscounts, started>>

\* One pass of: for item in order_data.items: INSERT INTO SaleItems (...)
save_online_order_insert_item(t, raises) ==
    /\ At(t, "save_online_order", "insert_item")
    /\ LET item == task[t].req.items[task[t].loc.i]
           more == task[t].loc.i < Len(task[t].req.items)
       IN  IF raises
           THEN Set(t, [task[t] EXCEPT !.pc = "except", !.loc.raised_at = "insert_item"])
           ELSE Set(t, [task[t] EXCEPT
                    !.loc.i = @ + 1,
                    !.loc.pending_items = @ \cup {ItemRow(task[t].loc.sale_id, task[t].loc.i, item)},
                    !.pc = IF more THEN "insert_item" ELSE "commit"])
    /\ UNCHANGED <<Sales, SaleItem, SaleItems, SaleDiscounts, nextSaleID, started>>

\* await conn.commit(): the pending rows become visible together, or the
\* call raises and nothing of the transaction is kept.
save_online_order_commit(t, raises) ==
    /\ At(t, "save_online_order", "commit")
    /\ IF raises
       THEN /\ Set(t, [task[t] EXCEPT !.pc = "except", !.loc.raised_at = "commit"])
            /\ UNCHANGED <<Sales, SaleItems>>
       ELSE /\ Sales' = Sales \cup task[t].loc.pending_sale
            /\ SaleItems' = SaleItems \cup task[t].loc.pending_items
            /\ Set(t, [task[t] EXCEPT !.loc.committed = TRUE,
                                      !.loc.pending_sale = {}, !.loc.pending_items = {},
                                      !.pc = "return"])
    /\ UNCHANGED <<SaleItem, SaleDiscounts, nextSaleID, started>>

\* return {"message": ..., "pos_sale_id": new_sale_id}; finally: conn.close()
save_online_order_return(t) ==
    /\ At(t, "save_online_order", "return")
    /\ Set(t, [task[t] EXCEPT !.pc = "done", !.conn = finally_close(@),
                              !.resp = [code |-> 201,
                                        body |-> [pos_sale_id |-> task[t].loc.sale_id]]])
    /\ UNCHANGED <<Sales, SaleItem, SaleItems, SaleDiscounts, nextSaleID, started>>

\* except Exception: if conn: await conn.rollback(); raise HTTPException(500);
\* finally: if conn: await conn.close()
save_online_order_except(t) ==
    /\ At(t, "save_online_order", "except")
    /\ Set(t, [task[t] EXCEPT !.pc = "done",
                              !.loc.raised_at = IF task[t].conn = "none" THEN "connect" ELSE @,
                              !.conn = finally_close(@),
                              !.loc.pending_sale = {}, !.loc.pending_items = {},
                              !.resp = HTTPException(500)])
    /\ UNCHANGED <<Sales, SaleItem, SaleItems, SaleDiscounts, nextSaleID, started>>

----------------------------------------------------------------------------
(* update_order_status: PATCH /auth/purchase_orders/{order_id}/status      *)

\* order_id is the path string, held as its pieces between '-' characters:
\* <<"num", n>> is a piece int() accepts, with value n; <<"txt", s>> is any
\* other piece. "SO-12" is << <<"txt","SO">>, <<"num",12>> >>.
\* int(order_id.split('-')[-1]): <<n>>, or <<>> for ValueError.
parse_order_id(order_id) ==
    IF Last(order_id)[1] = "num" THEN <<Last(order_id)[2]>> ELSE <<>>

\* cursor.rowcount is -1 until a statement has run.
UpdateLocals == [parsed_id |-> 0, rowcount |-> -1, committed |-> FALSE]

update_order_status_enter(t, user, order_id, newStatus) ==
    /\ Free(t)
    /\ started < MaxRequests
    /\ started' = started + 1
    /\ LET req == [order_id |-> order_id, newStatus |-> newStatus]
           new == [IdleTask EXCEPT !.op = "update_order_status", !.user = user,
                                   !.req = req, !.loc = UpdateLocals]
       IN  IF user.userRole \notin allowed_roles("update_order_status")
           THEN Set(t, [new EXCEPT !.pc = "done", !.resp = HTTPException(403)])
           ELSE IF parse_order_id(order_id) = <<>>
           THEN Set(t, [new EXCEPT !.pc = "done", !.resp = HTTPException(400)])
           ELSE Set(t, [new EXCEPT !.pc = "connect",
                                   !.loc = [UpdateLocals EXCEPT
                                               !.parsed_id = parse_order_id(order_id)[1]]])
    /\ UNCHANGED <<Sales, SaleItem, SaleItems, SaleDiscounts, nextSaleID>>

update_order_status_connect(t, raises) ==
    /\ At(t, "update_order_status", "connect")
    /\ get_db_connection(t, raises, "execute")
    /\ UNCHANGED <<Sales, SaleItem, SaleItems, SaleDiscounts, nextSaleID, started>>

\* update_order_status_after_update without the rowcount test.
update_order_status_after_update_unchecked(rowcount) == "commit"

\* After the UPDATE: if cursor.rowcount == 0: raise HTTPException(404)
update_order_status_after_update(rowcount) ==
    IF rowcount = 0 THEN "not_found" ELSE "commit"

\* update_sales_status without its WHERE clause.
update_sales_status_every_row(sales, newStatus, sale_id) ==
    {[r EXCEPT !.Status = newStatus] : r \in sales}

\* The table after UPDATE Sales SET Status = ?, UpdatedAt = GETDATE()
\* WHERE SaleID = ?
update_sales_status(sales, newStatus, sale_id) ==
    {IF r.SaleID = sale_id THEN [r EXCEPT !.Status = newStatus] ELSE r : r \in sales}

\* cursor.execute of that UPDATE in autocommit mode. The statement waits while another connection holds
\* the row in an open transaction.
update_order_status_execute(t, raises) ==
    /\ At(t, "update_order_status", "execute")
    /\ \A u \in Tasks : \A r \in Pending(u) : r.SaleID # task[t].loc.parsed_id
    /\ IF raises
       THEN /\ Set(t, [task[t] EXCEPT !.pc = "except"])
            /\ UNCHANGED Sales
       ELSE LET hit == {r \in Sales : r.SaleID = task[t].loc.parsed_id}
            IN  /\ Sales' = update_sales_status(Sales, task[t].req.newStatus,
                                                task[t].loc.parsed_id)
                /\ Set(t, [task[t] EXCEPT
                        !.loc.rowcount = Cardinality(hit),
                        !.pc = update_order_status_after_update(Cardinality(hit))])
    /\ UNCHANGED <<SaleItem, SaleItems, SaleDiscounts, nextSaleID, started>>

\* raise HTTPException(404) -> except: rollback; isinstance(e, HTTPException): raise e
update_order_status_not_found(t) ==
    /\ At(t, "update_order_status", "not_found")
    /\ Set(t, [task[t] EXCEPT !.pc = "done", !.conn = finally_close(@),
                              !.resp = HTTPException(404)])
    /\ UNCHANGED <<Sales, SaleItem, SaleItems, SaleDiscounts, nextSaleID, started>>

update_order_status_commit(t, raises) ==
    /\ At(t, "update_order_status", "commit")
    /\ IF raises
       THEN Set(t, [task[t] EXCEPT !.pc = "except"])
       ELSE Set(t, [task[t] EXCEPT !.loc.committed = TRUE, !.pc = "done",
                                   !.conn = finally_close(@),
                                   !.resp = [code |-> 200, body |-> <<>>]])
    /\ UNCHANGED <<Sales, SaleItem, SaleItems, SaleDiscounts, nextSaleID, started>>

update_order_status_except(t) ==
    /\ At(t, "update_order_status", "except")
    /\ Set(t, [task[t] EXCEPT !.pc = "done",
                              !.conn = finally_close(@),
                              !.resp = HTTPException(500)])
    /\ UNCHANGED <<Sales, SaleItem, SaleItems, SaleDiscounts, nextSaleID, started>>

----------------------------------------------------------------------------
(* The listings: get_processing_orders and get_all_orders                  *)

\* cashier_predicate with the filter parameter honoured for every role.
cashier_predicate_filter_for_all(user, cashierName) ==
    IF cashierName # NULL THEN cashierName
    ELSE IF user.userRole \in {"admin", "manager"} THEN <<>>
    ELSE <<user.username>>

\* The CashierName predicate get_processing_orders adds to its query:
\* <<>> for none, <<name>> for "AND s.CashierName = name".
cashier_predicate(user, cashierName) ==
    IF user.userRole \in {"admin", "manager"}
    THEN (IF cashierName # NULL THEN cashierName ELSE <<>>)
    ELSE <<user.username>>

\* ORDER BY s.CreatedAt, s.SaleID. CreatedAt is the time of the INSERT and
\* SaleID the identity taken by the same statement, so the order by
\* (CreatedAt, SaleID) is the order by SaleID. ids ascending, as a sequence:
RECURSIVE Ascending(_)
Ascending(ids) ==
    IF ids = {} THEN <<>>
    ELSE LET m == CHOOSE x \in ids : \A y \in ids : x <= y
         IN  <<m>> \o Ascending(ids \ {m})

Reverse(s) == [k \in 1..Len(s) |-> s[Len(s) + 1 - k]]

\* FROM Sales AS s LEFT JOIN SaleItems AS si ON s.SaleID = si.SaleID, for one
\* header: one row per item row (by SaleItemID), or one row with NULL item
\* columns when the header has no row in SaleItems.
joined_rows_of(s) ==
    LET lines == {r.Line : r \in {x \in SaleItems : x.SaleID = s.SaleID}}
        order == Ascending(lines)
        at(l) == CHOOSE r \in SaleItems : r.SaleID = s.SaleID /\ r.Line = l
    IN  IF lines = {} THEN << [s |-> s, si |-> NULL] >>
        ELSE [k \in 1..Len(order) |-> [s |-> s, si |-> <<at(order[k])>>]]

RECURSIVE joined_rows(_, _)
joined_rows(selected, order) ==
    IF order = <<>> THEN <<>>
    ELSE joined_rows_of(CHOOSE s \in selected : s.SaleID = Head(order))
         \o joined_rows(selected, Tail(order))

processing_rows(user, cashierName) ==
    LET pred == cashier_predicate(user, cashierName)
        selected == {s \in Sales : /\ s.Status \in {"processing", "completed"}
                                   /\ (pred # <<>> => s.CashierName = pred[1])}
    IN  joined_rows(selected, Ascending({s.SaleID : s \in selected}))

all_rows ==
    LET selected == {s \in Sales : s.Status \in {"completed", "processing", "cancelled"}}
    IN  joined_rows(selected, Reverse(Ascending({s.SaleID : s \in selected})))

\* f"SO-{sale_id}"
display_id(sale_id) == <<"SO-", sale_id>>

\* The loop "for row in rows": orders is orders_dict with item_subtotals, in
\* insertion order.
RECURSIVE fold_rows(_, _)
fold_rows(rows, orders) ==
    IF rows = <<>> THEN orders
    ELSE LET row == Head(rows)
             known == \E k \in 1..Len(orders) : orders[k].sale_id = row.s.SaleID
             shell == [sale_id |-> row.s.SaleID,
                       id |-> display_id(row.s.SaleID),
                       status |-> row.s.Status,
                       cashierName |-> row.s.CashierName,
                       GCashReferenceNumber |-> row.s.GCashReferenceNumber,
                       items |-> 0, orderItems |-> <<>>,
                       totalDiscount |-> row.s.TotalDiscountAmount,
                       item_subtotal |-> 0]
             with == IF known THEN orders ELSE Append(orders, shell)
             k == CHOOSE n \in 1..Len(with) : with[n].sale_id = row.s.SaleID
             added == IF row.si = NULL THEN with
                      ELSE [with EXCEPT
                              ![k].items = @ + row.si[1].Quantity,
                              ![k].item_subtotal = @ + row.si[1].UnitPrice * row.si[1].Quantity,
                              ![k].orderItems = Append(@,
                                  [name |-> row.si[1].ItemName,
                                   quantity |-> row.si[1].Quantity,
                                   price |-> row.si[1].UnitPrice,
                                   addons |-> row.si[1].Addons])]
         IN  fold_rows(Tail(rows), added)

\* response_list with the line items' subtotal as the total.
response_list_without_discount(orders) ==
    [k \in 1..Len(orders) |->
        [id |-> orders[k].id, status |-> orders[k].status,
         cashierName |-> orders[k].cashierName,
         GCashReferenceNumber |-> orders[k].GCashReferenceNumber,
         items |-> orders[k].items, orderItems |-> orders[k].orderItems,
         total |-> orders[k].item_subtotal]]

\* The loop "for sale_id, order_data in orders_dict.items()":
\* final_total = subtotal - total_discount. float(final_total) of an amount
\* of two decimals is the nearest double, which names that amount alone.
response_list(orders) ==
    [k \in 1..Len(orders) |->
        [id |-> orders[k].id, status |-> orders[k].status,
         cashierName |-> orders[k].cashierName,
         GCashReferenceNumber |-> orders[k].GCashReferenceNumber,
         items |-> orders[k].items, orderItems |-> orders[k].orderItems,
         total |-> orders[k].item_subtotal - orders[k].totalDiscount]]

aggregate(rows) == response_list(fold_rows(rows, <<>>))

get_processing_orders_enter(t, user, cashierName) ==
    /\ Enter(t, "get_processing_orders", user, [cashierName |-> cashierName], <<>>, "connect")
    /\ UNCHANGED <<Sales, SaleItem, SaleItems, SaleDiscounts, nextSaleID>>

get_processing_orders_connect(t, raises) ==
    /\ At(t, "get_processing_orders", "connect")
    /\ get_db_connection(t, raises, "query")
    /\ UNCHANGED <<Sales, SaleItem, SaleItems, SaleDiscounts, nextSaleID, started>>

\* cursor.execute(sql, *params); rows = fetchall(); the fold; return; finally close
get_processing_orders_query(t, raises) ==
    /\ At(t, "get_processing_orders", "query")
    /\ IF raises
       THEN Set(t, [task[t] EXCEPT !.pc = "except"])
       ELSE Set(t, [task[t] EXCEPT
                !.pc = "done", !.conn = finally_close(@),
                !.resp = [code |-> 200,
                          body |-> aggregate(processing_rows(task[t].user,
                                                             task[t].req.cashierName))]])
    /\ UNCHANGED <<Sales, SaleItem, SaleItems, SaleDiscounts, nextSaleID, started>>

\* except Exception: raise HTTPException(500); finally: if conn: conn.close()
get_processing_orders_except(t) ==
    /\ At(t, "get_processing_orders", "except")
    /\ Set(t, [task[t] EXCEPT !.pc = "done",
                              !.conn = finally_close(@),
                              !.resp = HTTPException(500)])
    /\ UNCHANGED <<Sales, SaleItem, SaleItems, SaleDiscounts, nextSaleID, started>>

get_all_orders_enter(t, user) ==
    /\ Enter(t, "get_all_orders", user, <<>>, <<>>, "connect")
    /\ UNCHANGED <<Sales, SaleItem, SaleItems, SaleDiscounts, nextSaleID>>

get_all_orders_connect(t, raises) ==
    /\ At(t, "get_all_orders", "connect")
    /\ get_db_connection(t, raises, "query")
    /\ UNCHANGED <<Sales, SaleItem, SaleItems, SaleDiscounts, nextSaleID, started>>

get_all_orders_query(t, raises) ==
    /\ At(t, "get_all_orders", "query")
    /\ IF raises
       THEN Set(t, [task[t] EXCEPT !.pc = "except"])
       ELSE Set(t, [task[t] EXCEPT !.pc = "done", !.conn = finally_close(@),
                                   !.resp = [code |-> 200, body |-> aggregate(all_rows)]])
    /\ UNCHANGED <<Sales, SaleItem, SaleItems, SaleDiscounts, nextSaleID, started>>

get_all_orders_except(t) ==
    /\ At(t, "get_all_orders", "except")
    /\ Set(t, [task[t] EXCEPT !.pc = "done",
                              !.conn = finally_close(@),
                              !.resp = HTTPException(500)])
    /\ UNCHANGED <<Sales, SaleItem, SaleItems, SaleDiscounts, nextSaleID, started>>

----------------------------------------------------------------------------
(* Requests                                                                *)

Latte == [name |-> "Latte", quantity |-> 2, price |-> 10000,
          addons |-> << <<"espressoShots", 1>> >>]
Tea   == [name |-> "Tea", quantity |-> 1, price |-> 5000, addons |-> <<>>]
Mocha == [name |-> "Mocha", quantity |-> 1, price |-> 12000,
          addons |-> << <<"syrupSauces", 2>>, <<"oatMilk", 1>> >>]

SaleRequest(cartItems, appliedDiscounts) ==
    [cartItems |-> cartItems, appliedDiscounts |-> appliedDiscounts,
     gcashReference |-> NULL]

SaleRequests == { SaleRequest(<<Tea, Latte>>, <<"Half", "Big">>) }

\* An order whose amounts agree with its items, and one whose amounts and
\* status are whatever the caller sent.
OnlineOrders ==
    { [online_order_id |-> 7, customer_name |-> "ana", subtotal |-> 17000,
       total_amount |-> 16000, status |-> "processing", items |-> <<Tea, Mocha>>],
      [online_order_id |-> 8, customer_name |-> "web", subtotal |-> 30000,
       total_amount |-> 0, status |-> "pending", items |-> <<Tea>>] }

OrderIds ==
    { << <<"txt", "SO">>, <<"num", 1>> >>,
      << <<"num", 9>> >>,
      << <<"txt", "SO">>, <<"txt", "x">> >> }

NewStatuses == {"completed", "cancelled", "processing"}

CashierNames == { NULL, <<"ana">>, <<"ben">> }

----------------------------------------------------------------------------
(* Specifications                                                          *)

Init ==
    /\ Sales = {}
    /\ SaleItem = {}
    /\ SaleItems = {}
    /\ SaleDiscounts = {}
    /\ nextSaleID = 1
    /\ task = [t \in Tasks |-> IdleTask]
    /\ started = 0

\* The steps of create_sale after the role check.
CreateSaleStep(t) ==
    \/ \E raises \in BOOLEAN : create_sale_connect(t, raises)
    \/ \E raises \in BOOLEAN : create_sale_calculate(t, raises)
    \/ \E raises \in BOOLEAN : create_sale_insert_sale(t, raises)
    \/ \E raises \in BOOLEAN : create_sale_insert_item(t, raises)
    \/ \E raises \in BOOLEAN : create_sale_insert_discount(t, raises)
    \/ \E raises \in BOOLEAN : create_sale_commit(t, raises)
    \/ \E ok \in BOOLEAN : trigger_ingredients_deduction(t, ok)
    \/ \E ok \in BOOLEAN : trigger_materials_deduction(t, ok)
    \/ create_sale_return(t)
    \/ create_sale_except(t)

Step(t) ==
    \/ \E user \in Users, sale \in SaleRequests : create_sale_enter(t, user, sale)
    \/ CreateSaleStep(t)
    \/ \E user \in Users, order_data \in OnlineOrders :
          save_online_order_enter(t, user, order_data)
    \/ \E raises \in BOOLEAN : save_online_order_connect(t, raises)
    \/ \E raises \in BOOLEAN : save_online_order_begin(t, raises)
    \/ \E raises \in BOOLEAN : save_online_order_insert_sale(t, raises)
    \/ \E raises \in BOOLEAN : save_online_order_insert_item(t, raises)
    \/ \E raises \in BOOLEAN : save_online_order_commit(t, raises)
    \/ save_online_order_return(t)
    \/ save_online_order_except(t)
    \/ \E user \in Users, order_id \in OrderIds, newStatus \in NewStatuses :
          update_order_status_enter(t, user, order_id, newStatus)
    \/ \E raises \in BOOLEAN : update_order_status_connect(t, raises)
    \/ \E raises \in BOOLEAN : update_order_status_execute(t, raises)
    \/ update_order_status_not_found(t)
    \/ \E raises \in BOOLEAN : update_order_status_commit(t, raises)
    \/ update_order_status_except(t)
    \/ \E user \in Users, cashierName \in CashierNames :
          get_processing_orders_enter(t, user, cashierName)
    \/ \E raises \in BOOLEAN : get_processing_orders_connect(t, raises)
    \/ \E raises \in BOOLEAN : get_processing_orders_query(t, raises)
    \/ get_processing_orders_except(t)
    \/ \E user \in Users : get_all_orders_enter(t, user)
    \/ \E raises \in BOOLEAN : get_all_orders_connect(t, raises)
    \/ \E raises \in BOOLEAN : get_all_orders_query(t, raises)
    \/ get_all_orders_except(t)

\* Requests running concurrently on the tasks, from an empty store.
Next == \E t \in Tasks : Step(t)

Spec == Init /\ [][Next]_vars

\* A store the service has written before: sale 1, created by ben through
\* create_sale; sale 2, saved through save_online_order for customer ana.
SeedSale == SaleRequest(<<Tea, Latte>>, <<"Half", "Big">>)
SeedTotals == calculate_totals_and_discounts(SeedSale.cartItems, SeedSale.appliedDiscounts)
SeedOrder == [online_order_id |-> 7, customer_name |-> "ana", subtotal |-> 17000,
              total_amount |-> 16000, status |-> "processing", items |-> <<Tea, Mocha>>]

InitSeeded ==
    /\ Sales = { [SaleID |-> 1, CashierName |-> "ben",
                  TotalDiscountAmount |-> SeedTotals.discount,
                  Status |-> DefaultStatus, GCashReferenceNumber |-> NULL],
                 [SaleID |-> 2, CashierName |-> SeedOrder.customer_name,
                  TotalDiscountAmount |-> online_discount_amount(SeedOrder),
                  Status |-> SeedOrder.status,
                  GCashReferenceNumber |-> online_reference(SeedOrder.online_order_id)] }
    /\ SaleItem = { ItemRow(1, k, SeedSale.cartItems[k]) : k \in 1..Len(SeedSale.cartItems) }
    /\ SaleItems = { ItemRow(2, k, SeedOrder.items[k]) : k \in 1..Len(SeedOrder.items) }
    /\ SaleDiscounts = { [SaleID |-> 1, DiscountID |-> d.id, DiscountAppliedAmount |-> d.amount] :
                           d \in {SeedTotals.details[k] : k \in 1..Len(SeedTotals.details)} }
    /\ nextSaleID = 3
    /\ task = [t \in Tasks |-> IdleTask]
    /\ started = 0

\* Requests handled one after the other, on the store above.
NextSerial == Step(1)

SpecSerial == InitSeeded /\ [][NextSerial]_vars

\* One create_sale request past its role check, over every cart of up to
\* MaxCartLen items and every list of requested discounts below.
RECURSIVE CartsOfLen(_)
CartsOfLen(n) ==
    IF n = 0 THEN { <<>> }
    ELSE { Append(c, item) : c \in CartsOfLen(n - 1), item \in {Latte, Tea, Mocha} }

PricingCarts == UNION { CartsOfLen(n) : n \in 0..MaxCartLen }

PricingDiscounts ==
    { <<>>, <<"HappyHour">>, <<"Half">>, <<"Big">>, <<"Half", "Big">>,
      <<"HappyHour", "Half">>, <<"Old", "Vip", "Blank">>, <<"HappyHour", "Gone">> }

InitPricing ==
    /\ Sales = {}
    /\ SaleItem = {}
    /\ SaleItems = {}
    /\ SaleDiscounts = {}
    /\ nextSaleID = 1
    /\ started = MaxRequests
    /\ \E c \in PricingCarts, d \in PricingDiscounts :
          task = [t \in Tasks |->
                    IF t = 1
                    THEN [IdleTask EXCEPT !.op = "create_sale", !.pc = "connect",
                                          !.user = [username |-> "ana", userRole |-> "cashier"],
                                          !.req = SaleRequest(c, d),
                                          !.loc = CreateSaleLocals]
                    ELSE IdleTask]

NextPricing == CreateSaleStep(1)

SpecPricing == InitPricing /\ [][NextPricing]_vars

\* The seeded store is one the service reaches from the empty store.
SeedReached ==
    /\ Sales = { [SaleID |-> 1, CashierName |-> "ben",
                  TotalDiscountAmount |-> SeedTotals.discount,
                  Status |-> DefaultStatus, GCashReferenceNumber |-> NULL],
                 [SaleID |-> 2, CashierName |-> SeedOrder.customer_name,
                  TotalDiscountAmount |-> online_discount_amount(SeedOrder),
                  Status |-> SeedOrder.status,
                  GCashReferenceNumber |-> online_reference(SeedOrder.online_order_id)] }
    /\ SaleItem = { ItemRow(1, k, SeedSale.cartItems[k]) : k \in 1..Len(SeedSale.cartItems) }
    /\ SaleItems = { ItemRow(2, k, SeedOrder.items[k]) : k \in 1..Len(SeedOrder.items) }
    /\ Cardinality(SaleDiscounts) = 2
    /\ nextSaleID = 3
    /\ \A t \in Tasks : ~Busy(t)

----------------------------------------------------------------------------
(* Properties                                                              *)

Done(t, operation) == task[t].op = operation /\ task[t].pc = "done"

RowsOf(table, sale_id) == {r \in table : r.SaleID = sale_id}

RECURSIVE SumApplied(_)
SumApplied(rows) ==
    IF rows = {} THEN 0
    ELSE LET r == CHOOSE x \in rows : TRUE
         IN  r.DiscountAppliedAmount + SumApplied(rows \ {r})

\* Sum of (unitPrice + addon surcharge) * quantity over persisted line items
RECURSIVE SumLineTotals(_)
SumLineTotals(rows) ==
    IF rows = {} THEN 0
    ELSE LET r == CHOOSE x \in rows : TRUE
         IN  (r.UnitPrice + addons_price(r.Addons)) * r.Quantity
             + SumLineTotals(rows \ {r})

\* C1: when create sale fails after its Sale header was inserted (the
\* request has a sale id and does not end with the created response), the
\* caller receives an error and the store holds no Sale, SaleItem or
\* SaleDiscounts row of that sale once the request has ended.
C1_FailedCreateSaleLeavesNoRows ==
    \A t \in Tasks :
        (Done(t, "create_sale") /\ task[t].loc.sale_id # 0 /\ task[t].resp.code # 201)
        => /\ task[t].resp.code = 500
           /\ RowsOf(Sales, task[t].loc.sale_id) = {}
           /\ RowsOf(SaleItem, task[t].loc.sale_id) = {}
           /\ RowsOf(SaleDiscounts, task[t].loc.sale_id) = {}

IsListing(t) ==
    /\ task[t].op \in {"get_processing_orders", "get_all_orders"}
    /\ task[t].pc = "done"
    /\ task[t].resp.code = 200

IsWriter(t) ==
    /\ task[t].op \in {"create_sale", "save_online_order"}
    /\ task[t].loc.sale_id # 0

WrittenItems(t) ==
    IF task[t].op = "create_sale" THEN task[t].req.cartItems ELSE task[t].req.items

\* C2: a listing that ran while a sale-writing request was under way
\* returns either no order for that sale, or the order with all the line
\* items the request writes.
C2_ListingSeesNoPartialSale ==
    \A l \in Tasks, w \in Tasks :
        (IsListing(l) /\ IsWriter(w))
        => \A k \in 1..Len(task[l].resp.body) :
              task[l].resp.body[k].id = display_id(task[w].loc.sale_id)
              => Len(task[l].resp.body[k].orderItems) = Len(WrittenItems(w))

Created(t) == Done(t, "create_sale") /\ task[t].resp.code = 201

HeaderDiscount(sale_id) ==
    (CHOOSE r \in Sales : r.SaleID = sale_id).TotalDiscountAmount

AppliedSum(sale_id) == SumApplied(RowsOf(SaleDiscounts, sale_id))

\* C3, as claimed: for every sale create sale has created, the
\* TotalDiscountAmount of its Sale row equals the sum of the
\* DiscountAppliedAmount of its SaleDiscounts rows.
C3_HeaderDiscountIsAppliedSum ==
    \A t \in Tasks :
        Created(t) => HeaderDiscount(task[t].loc.sale_id) = AppliedSum(task[t].loc.sale_id)

\* C3, amended: for every sale create sale has created, the
\* TotalDiscountAmount of its Sale row equals the sum of the
\* DiscountAppliedAmount of its SaleDiscounts rows when that sum does not
\* exceed the subtotal of the cart, and equals the subtotal otherwise.
C3_HeaderDiscountIsClampedAppliedSum ==
    \A t \in Tasks :
        Created(t)
        => LET id == task[t].loc.sale_id
               subtotal == cart_subtotal(task[t].req.cartItems)
           IN  /\ RowsOf(Sales, id) # {}
               /\ Cardinality(RowsOf(SaleDiscounts, id)) = Len(task[t].loc.discount_details)
               /\ HeaderDiscount(id) = IF AppliedSum(id) <= subtotal
                                       THEN AppliedSum(id) ELSE subtotal

\* A sale created with discounts whose contributions sum to more than the subtotal.
C3_Witness ==
    \E t \in Tasks :
        /\ Created(t)
        /\ AppliedSum(task[t].loc.sale_id) > cart_subtotal(task[t].req.cartItems)
        /\ cart_subtotal(task[t].req.cartItems) > 0

\* C4: in every state, the TotalDiscountAmount of every row of Sales is at
\* most the sum over the sale's own line items of
\* (unitPrice + addon surcharge) * quantity.
C4_DiscountWithinOwnSubtotal ==
    \A s \in Sales :
        s.TotalDiscountAmount
            <= SumLineTotals(RowsOf(SaleItem, s.SaleID) \cup RowsOf(SaleItems, s.SaleID))

\* C5: create sale issues a deduction notification only after its commit
\* has returned; a request that ends in an error has sent neither.
C5_NotificationsOnlyAfterCommit ==
    \A t \in Tasks :
        task[t].op = "create_sale"
        => /\ (task[t].pc \in {"trigger_ingredients", "trigger_materials"}
                 => task[t].loc.committed)
           /\ (task[t].loc.ingredients # "none" \/ task[t].loc.materials # "none"
                 => task[t].loc.committed)
           /\ (task[t].pc = "done" /\ task[t].resp.code # 201
                 => task[t].loc.ingredients = "none" /\ task[t].loc.materials = "none")

\* A create sale whose commit raised after every row was inserted: it ended
\* with an error and sent no notification.
C5_Witness ==
    \E t \in Tasks :
        /\ Done(t, "create_sale")
        /\ task[t].resp.code = 500
        /\ task[t].loc.sale_id # 0
        /\ task[t].loc.i > Len(task[t].req.cartItems)
        /\ task[t].loc.j > Len(task[t].loc.discount_details)
        /\ ~task[t].loc.committed
        /\ task[t].loc.ingredients = "none"

NotificationFailed(t) ==
    task[t].loc.ingredients = "failed" \/ task[t].loc.materials = "failed"

\* C6: when a deduction notification of a committed create sale fails, the
\* request goes on to the other notification and ends with the created
\* response carrying saleId, subtotal, discount and final total, and the
\* rows of the sale are in the store.
C6_NotificationFailureIsSwallowed ==
    \A t \in Tasks :
        (task[t].op = "create_sale" /\ NotificationFailed(t))
        => /\ task[t].pc \in {"trigger_materials", "return", "done"}
           /\ task[t].pc \in {"return", "done"}
                 => task[t].loc.ingredients # "none" /\ task[t].loc.materials # "none"
           /\ task[t].pc = "done"
                 => LET id == task[t].loc.sale_id
                        subtotal == cart_subtotal(task[t].req.cartItems)
                    IN  /\ task[t].resp.code = 201
                        /\ task[t].resp.body.saleId = id
                        /\ task[t].resp.body.subtotal = subtotal
                        /\ RowsOf(Sales, id) # {}
                        /\ task[t].resp.body.discountAmount = HeaderDiscount(id)
                        /\ task[t].resp.body.finalTotal = subtotal - HeaderDiscount(id)
                        /\ Cardinality(RowsOf(SaleItem, id)) = Len(task[t].req.cartItems)
                        /\ Cardinality(RowsOf(SaleDiscounts, id))
                              = Len(task[t].loc.discount_details)

\* A create sale that ended after its ingredient notification failed.
C6_Witness ==
    \E t \in Tasks :
        /\ Done(t, "create_sale")
        /\ task[t].loc.ingredients = "failed"
        /\ task[t].loc.materials \in {"ok", "failed"}
        /\ task[t].resp.code = 201

Restricted(user) == user.userRole \in {"staff", "cashier"}

\* C7: for a staff or cashier caller, the query of list processing orders
\* answers with orders of the caller's own username only, and answers what
\* it answers with no cashierName filter, whatever the filter is.
C7_RestrictedCallerSeesOwnOrders ==
    [][ \A t \in Tasks :
          (/\ At(t, "get_processing_orders", "query")
           /\ Restricted(task[t].user)
           /\ task'[t].pc = "done")
          => /\ task'[t].resp.code = 200
             /\ \A k \in 1..Len(task'[t].resp.body) :
                   task'[t].resp.body[k].cashierName = task[t].user.username
             /\ task'[t].resp.body = aggregate(processing_rows(task[t].user, NULL)) ]_vars

\* A cashier who asked for another cashier's orders, while that cashier has
\* orders in the listed statuses, and got her own.
C7_Witness ==
    \E t \in Tasks :
        /\ Done(t, "get_processing_orders")
        /\ task[t].user.userRole = "cashier"
        /\ task[t].req.cashierName # NULL
        /\ task[t].req.cashierName # <<task[t].user.username>>
        /\ \E s \in Sales : /\ <<s.CashierName>> = task[t].req.cashierName
                            /\ s.Status \in {"processing", "completed"}
        /\ task[t].resp.code = 200
        /\ Len(task[t].resp.body) > 0

\* The permitted role set of each operation.
PermittedRoles(operation) ==
    CASE operation = "get_all_orders"    -> {"admin", "manager"}
      [] operation = "save_online_order" -> {"admin", "staff", "cashier"}
      [] OTHER                           -> {"admin", "manager", "staff", "cashier"}

Store == <<Sales, SaleItem, SaleItems, SaleDiscounts, nextSaleID>>

\* C8: a request of a caller whose role is outside the operation's
\* permitted set ends at once with 403, with no connection opened and the
\* store as it was; a caller inside the set is not refused. For list all
\* orders the set is {admin, manager}.
C8_ForbiddenBeforeAnyDatabaseWork ==
    /\ [](\A t \in Tasks :
            task[t].op \in Operations
            => IF task[t].user.userRole \in PermittedRoles(task[t].op)
               THEN task[t].resp.code # 403
               ELSE /\ task[t].pc = "done"
                    /\ task[t].resp.code = 403
                    /\ task[t].conn = "none")
    /\ [][ \A t \in Tasks :
             (/\ task'[t] # task[t]
              /\ task'[t].op \in Operations
              /\ task'[t].user.userRole \notin PermittedRoles(task'[t].op))
             => Store' = Store ]_vars

\* A staff caller refused by list all orders.
C8_Witness ==
    \E t \in Tasks :
        /\ Done(t, "get_all_orders")
        /\ task[t].user.userRole = "staff"
        /\ task[t].resp.code = 403
        /\ task[t].conn = "none"

\* C9: an update order status whose identifier parses and matches no row of
\* Sales changes no row of Sales and ends with 404.
C9_UnknownOrderIsNotFound ==
    /\ [][ \A t \in Tasks :
             (/\ At(t, "update_order_status", "execute")
              /\ task'[t].pc \notin {"execute", "except"}
              /\ RowsOf(Sales, task[t].loc.parsed_id) = {})
             => /\ task'[t].pc = "not_found"
                /\ Sales' = Sales ]_vars
    /\ [](\A t \in Tasks :
            /\ At(t, "update_order_status", "not_found") => task[t].loc.rowcount = 0
            /\ (Done(t, "update_order_status") /\ task[t].loc.rowcount = 0)
                  => task[t].resp.code = 404)

\* An update for an identifier no sale has, ended with 404.
C9_Witness ==
    \E t \in Tasks :
        /\ Done(t, "update_order_status")
        /\ task[t].loc.rowcount = 0
        /\ RowsOf(Sales, task[t].loc.parsed_id) = {}
        /\ Sales # {}
        /\ task[t].resp.code = 404

----------------------------------------------------------------------------
(* The aggregation of the listings                                         *)

\* The rows of the query a listing task is about to run.
QueryRows(t) ==
    IF task[t].op = "get_processing_orders"
    THEN processing_rows(task[t].user, task[t].req.cashierName)
    ELSE all_rows

\* The distinct sale ids of a row sequence, in the order they are first seen.
RECURSIVE FirstSeen(_, _)
FirstSeen(rows, seen) ==
    IF rows = <<>> THEN seen
    ELSE FirstSeen(Tail(rows),
                   IF \E k \in 1..Len(seen) : seen[k] = Head(rows).s.SaleID
                   THEN seen ELSE Append(seen, Head(rows).s.SaleID))

\* The positions of the rows of one sale that carry a line item.
ItemPositions(rows, sale_id) ==
    {k \in 1..Len(rows) : rows[k].s.SaleID = sale_id /\ rows[k].si # NULL}

\* Sum over the item rows at the given positions of UnitPrice * Quantity.
RECURSIVE SumAt(_, _)
SumAt(rows, positions) ==
    IF positions = {} THEN 0
    ELSE LET k == CHOOSE x \in positions : TRUE
         IN  rows[k].si[1].UnitPrice * rows[k].si[1].Quantity
             + SumAt(rows, positions \ {k})

StoredDiscount(sale_id) ==
    (CHOOSE s \in Sales : s.SaleID = sale_id).TotalDiscountAmount

\* C11: the answer of list processing orders and of list all orders has
\* exactly one view per distinct sale id of the joined rows, in the order
\* the ids are first seen; each view's total is the sum over the order's
\* item rows of UnitPrice * Quantity minus the stored TotalDiscountAmount;
\* an order with no item row has no items, item count 0 and total
\* -TotalDiscountAmount.
C11_OneViewPerSaleWithStoredDiscount ==
    [][ \A t \in Tasks :
          (/\ task[t].op \in {"get_processing_orders", "get_all_orders"}
           /\ task[t].pc = "query"
           /\ task'[t].pc = "done")
          => LET rows == QueryRows(t)
                 ids  == FirstSeen(rows, <<>>)
                 body == task'[t].resp.body
             IN  /\ task'[t].resp.code = 200
                 /\ Len(body) = Len(ids)
                 /\ \A k \in 1..Len(ids) :
                      LET at == ItemPositions(rows, ids[k])
                      IN  /\ body[k].id = display_id(ids[k])
                          /\ body[k].total = SumAt(rows, at) - StoredDiscount(ids[k])
                          /\ Len(body[k].orderItems) = Cardinality(at)
                          /\ at = {} => /\ body[k].orderItems = <<>>
                                        /\ body[k].items = 0
                                        /\ body[k].total = 0 - StoredDiscount(ids[k]) ]_vars

\* A listing that answered with an order of no line item and non-zero
\* discount, and with an order folded from two rows.
C11_Witness ==
    \E t \in Tasks :
        /\ IsListing(t)
        /\ \E k \in 1..Len(task[t].resp.body) :
              /\ task[t].resp.body[k].orderItems = <<>>
              /\ task[t].resp.body[k].total < 0
        /\ \E k \in 1..Len(task[t].resp.body) :
              /\ Len(task[t].resp.body[k].orderItems) = 2
              /\ task[t].resp.body[k].total > 0

----------------------------------------------------------------------------
(* Connections                                                             *)

\* C12: a request that has ended holds no open connection, whichever way
\* it ended (return, HTTPException raised inside the try block, except
\* block with rollback); and the step that ends a request that had acquired
\* a connection leaves that connection closed.
C12_ConnectionClosedOnEveryExit ==
    /\ [](\A t \in Tasks : task[t].pc = "done" => task[t].conn # "open")
    /\ [][ \A t \in Tasks :
             (task[t].conn = "open" /\ task'[t].pc = "done" /\ task'[t].op = task[t].op
              /\ task[t].pc # "done")
             => task'[t].conn = "closed" ]_vars

\* A create_sale that failed after it had written its header and went
\* through the except block, its connection closed.
C12_Witness ==
    \E t \in Tasks :
        /\ Done(t, "create_sale")
        /\ task[t].resp.code = 500
        /\ task[t].loc.sale_id # 0
        /\ task[t].conn = "closed"

----------------------------------------------------------------------------
(* save_online_order                                                       *)

\* The exception a save_online_order request ended on came from the
\* database: the connection could not be opened, or an INSERT or the
\* commit failed.
DatabaseFault(t) ==
    task[t].loc.raised_at \in {"connect", "insert_sale", "insert_item", "commit"}

\* C13: a save online order request of a permitted role that met no
\* database fault has ended with a created outcome carrying the new sale
\* id; exactly one Sale header has that id, its TotalDiscountAmount is the
\* caller's subtotal minus the caller's total amount and its reference is
\* 'ONLINE-' followed by the external order id; SaleItems has one row per
\* supplied item under that id; and the rows are committed.
C13_OnlineOrderIsPersisted ==
    \A t \in Tasks :
        (/\ Done(t, "save_online_order")
         /\ task[t].user.userRole \in {"admin", "staff", "cashier"}
         /\ ~DatabaseFault(t))
        => LET id == task[t].loc.sale_id
               order_data == task[t].req
           IN  /\ task[t].resp.code = 201
               /\ task[t].resp.body.pos_sale_id = id
               /\ task[t].loc.committed
               /\ Cardinality(RowsOf(Sales, id)) = 1
               /\ \A s \in RowsOf(Sales, id) :
                     /\ s.TotalDiscountAmount = order_data.subtotal - order_data.total_amount
                     /\ s.GCashReferenceNumber = <<"ONLINE-", order_data.online_order_id>>
               /\ Cardinality(RowsOf(SaleItems, id)) = Len(order_data.items)
               /\ \A k \in 1..Len(order_data.items) :
                     \E r \in RowsOf(SaleItems, id) :
                        /\ r.ItemName = order_data.items[k].name
                        /\ r.Quantity = order_data.items[k].quantity
                        /\ r.UnitPrice = order_data.items[k].price

----------------------------------------------------------------------------
(* The frame of update_order_status                                        *)

\* C14: a step of an update_order_status request changes nothing but the
\* Status of the Sales rows whose SaleID is the parsed identifier (at most
\* one row): every other header, every line item and every applied
\* discount row is as before; and no step of any request removes or
\* changes a line item row of SaleItem or SaleItems.
C14_UpdateTouchesOnlyTheStatusOfOneSale ==
    /\ [][ \A t \in Tasks :
             (task[t].op = "update_order_status" /\ Busy(t) /\ task'[t] # task[t])
             => LET id == task[t].loc.parsed_id
                IN  /\ SaleItem' = SaleItem
                    /\ SaleItems' = SaleItems
                    /\ SaleDiscounts' = SaleDiscounts
                    /\ {s \in Sales' : s.SaleID # id} = {s \in Sales : s.SaleID # id}
                    /\ Cardinality(RowsOf(Sales, id)) <= 1
                    /\ {[s EXCEPT !.Status = "any"] : s \in RowsOf(Sales', id)}
                         = {[s EXCEPT !.Status = "any"] : s \in RowsOf(Sales, id)} ]_vars
    /\ [][ SaleItem \subseteq SaleItem' /\ SaleItems \subseteq SaleItems' ]_vars

\* An update that succeeded and changed the status of its sale, while
\* another sale keeps a different status and line items and applied
\* discounts are in the store.
C14_Witness ==
    \E t \in Tasks :
        /\ Done(t, "update_order_status")
        /\ task[t].resp.code = 200
        /\ task[t].req.newStatus = "cancelled"
        /\ \E s \in RowsOf(Sales, task[t].loc.parsed_id) : s.Status = "cancelled"
        /\ \E s \in Sales : s.SaleID # task[t].loc.parsed_id /\ s.Status = "processing"
        /\ SaleItem # {} /\ SaleItems # {} /\ SaleDiscounts # {}

----------------------------------------------------------------------------
(* From create_sale to the listings                                        *)

\* Listing task u is about to query on behalf of a caller entitled to see
\* the sale that create_sale task t has answered for: the creating user on
\* list processing orders (with no filter naming someone else), an admin on
\* list all orders.
ListsSaleOf(u, t) ==
    /\ task[u].pc = "query"
    /\ \/ /\ task[u].op = "get_processing_orders"
          /\ task[u].user.username = task[t].user.username
          /\ task[u].req.cashierName \in {NULL, <<task[t].user.username>>}
       \/ /\ task[u].op = "get_all_orders"
          /\ task[u].user.userRole = "admin"

\* C15: a listing answered after create_sale has answered 201 for a cart,
\* while the sale is still in processing status, contains an order with the
\* sale's id that has every line item of the cart, in order, and whose
\* total is the finalTotal create_sale returned.
C15_CreatedSaleIsListedWithItsTotal ==
    [][ \A t, u \in Tasks :
          (/\ Created(t)
           /\ \E s \in RowsOf(Sales, task[t].resp.body.saleId) : s.Status = "processing"
           /\ ListsSaleOf(u, t)
           /\ task'[u].pc = "done"
           /\ task'[u].resp.code = 200)
          => LET cart == task[t].req.cartItems
                 body == task'[u].resp.body
             IN  \E k \in 1..Len(body) :
                    /\ body[k].id = display_id(task[t].resp.body.saleId)
                    /\ Len(body[k].orderItems) = Len(cart)
                    /\ \A n \in 1..Len(cart) :
                          /\ body[k].orderItems[n].name = cart[n].name
                          /\ body[k].orderItems[n].quantity = cart[n].quantity
                    /\ body[k].total = task[t].resp.body.finalTotal ]_vars

=============================================================================
